---------------------------- MODULE Spec2Model ----------------------------
(***************************************************************************)
(* A model of the trading-analysis backend in src/main.py: the             *)
(* multi-endpoint fetch with fallback (get_klines), the indicators         *)
(* (calculate_rsi, the two EMAs), the trend rule and the response built    *)
(* by the GET /analyze handler.                                            *)
(*                                                                         *)
(* Numbers.  Closing prices are integers counting thousandths of the quote *)
(* currency ("mills"), so that a price can carry more than two decimals.   *)
(* The values pandas computes in floating point are modelled as exact      *)
(* rationals together with the two IEEE special values the code relies on  *)
(* (NaN and infinity); round(x, 2) is modelled as rounding to the nearest  *)
(* hundredth, ties to even.  EMA values are fixed-point numbers counting   *)
(* 1/100000 of the quote currency.                                         *)
(***************************************************************************)
EXTENDS Integers, Sequences, FiniteSets, TLC

(***************************************************************************)
(* Constants of src/main.py.                                               *)
(***************************************************************************)
DefaultInterval == "15m"

RsiPeriod == 14

Ema20Span == 20

Ema50Span == 50

TailLen == 30

(***************************************************************************)
(* Small helpers on integers and sequences.                                *)
(***************************************************************************)
Range(s) == { s[i] : i \in DOMAIN s }

Abs(x) == IF x < 0 THEN -x ELSE x

Sgn(x) == IF x < 0 THEN -1 ELSE IF x > 0 THEN 1 ELSE 0

Last(s) == s[Len(s)]

\* n / d rounded to the nearest integer, ties to the even one (n >= 0, d > 0).
RoundDiv(n, d) ==
    LET q == n \div d
        r == n % d
    IN  IF 2 * r < d THEN q
        ELSE IF 2 * r > d THEN q + 1
        ELSE IF q % 2 = 0 THEN q ELSE q + 1

(***************************************************************************)
(* Floating-point values: NaN, +/- infinity, or the rational n / d, d > 0. *)
(***************************************************************************)
NaN == [k |-> "nan", n |-> 0, d |-> 1]

Inf(sign) == [k |-> "inf", n |-> sign, d |-> 1]

Num(n, d) == [k |-> "num", n |-> n, d |-> d]

IsNaN(x) == x.k = "nan"

FNeg(x) == IF x.k = "nan" THEN NaN ELSE [x EXCEPT !.n = -x.n]

FAdd(a, b) ==
    IF a.k = "nan" \/ b.k = "nan" THEN NaN
    ELSE IF a.k = "inf" /\ b.k = "inf" THEN (IF a.n = b.n THEN a ELSE NaN)
    ELSE IF a.k = "inf" THEN a
    ELSE IF b.k = "inf" THEN b
    ELSE Num(a.n * b.d + b.n * a.d, a.d * b.d)

FSub(a, b) == FAdd(a, FNeg(b))

\* IEEE division as numpy performs it: x/0 is an infinity, 0/0 is NaN.
FDiv(a, b) ==
    IF a.k = "nan" \/ b.k = "nan" THEN NaN
    ELSE IF a.k = "inf" /\ b.k = "inf" THEN NaN
    ELSE IF a.k = "inf" THEN Inf(IF b.n < 0 THEN -a.n ELSE a.n)
    ELSE IF b.k = "inf" THEN Num(0, 1)
    ELSE IF b.n = 0 THEN (IF a.n = 0 THEN NaN ELSE Inf(Sgn(a.n)))
    ELSE Num(a.n * b.d * Sgn(b.n), a.d * Abs(b.n))

\* a <= b on non-NaN values.
FLeq(a, b) ==
    IF a.k = "inf" THEN (a.n < 0 \/ (b.k = "inf" /\ b.n > 0))
    ELSE IF b.k = "inf" THEN b.n > 0
    ELSE a.n * b.d <= b.n * a.d

(***************************************************************************)
(* calculate_rsi.  A Series of closing prices is a sequence of integers    *)
(* (mills); every Series derived from it holds floating-point values and   *)
(* is given element by element: XAt(series, i) is element i (1-based) of   *)
(* the Series X computed from `series`.                                    *)
(***************************************************************************)
\* delta = series.diff(): the first element has no predecessor and is NaN.
DeltaAt(series, i) ==
    IF i = 1 THEN NaN ELSE FSub(Num(series[i], 1), Num(series[i - 1], 1))

\* clip(lower=0) and clip(upper=0) of one value: NaN stays NaN.
ClipLower0(x) ==
    IF IsNaN(x) THEN NaN ELSE IF FLeq(x, Num(0, 1)) THEN Num(0, 1) ELSE x

ClipUpper0(x) ==
    IF IsNaN(x) THEN NaN ELSE IF FLeq(Num(0, 1), x) THEN Num(0, 1) ELSE x

\* gain = delta.clip(lower=0)
GainAt(series, i) == ClipLower0(DeltaAt(series, i))

\* loss = -delta.clip(upper=0)
LossAtNoNegation(series, i) == ClipUpper0(DeltaAt(series, i))

LossAt(series, i) == FNeg(ClipUpper0(DeltaAt(series, i)))

ColumnAt(col, series, i) ==
    IF col = "gain" THEN GainAt(series, i) ELSE LossAt(series, i)

RECURSIVE WindowSum(_, _, _, _)
WindowSum(col, series, lo, hi) ==
    IF lo > hi THEN Num(0, 1)
    ELSE FAdd(WindowSum(col, series, lo, hi - 1), ColumnAt(col, series, hi))

\* col.rolling(period).mean(): min_periods defaults to the window size, so
\* the mean is NaN until the window holds `period` values none of which is NaN.
RollingMeanAt(col, series, period, i) ==
    IF i < period \/ \E j \in (i - period + 1)..i : IsNaN(ColumnAt(col, series, j))
    THEN NaN
    ELSE FDiv(WindowSum(col, series, i - period + 1, i), Num(period, 1))

AvgGainAt(series, period, i) == RollingMeanAt("gain", series, period, i)

AvgLossAt(series, period, i) == RollingMeanAt("loss", series, period, i)

\* rs = avg_gain / avg_loss
RsAt(series, period, i) ==
    FDiv(AvgGainAt(series, period, i), AvgLossAt(series, period, i))

\* rsi = 100 - (100 / (1 + rs))
RsiAt(series, period, i) ==
    FSub(Num(100, 1),
         FDiv(Num(100, 1), FAdd(Num(1, 1), RsAt(series, period, i))))

\* fillna(v) of one value: only NaN is replaced, an infinity is not.
FillNaZero(x, v) == IF IsNaN(x) THEN Num(0, 1) ELSE x

FillNa(x, v) == IF IsNaN(x) THEN v ELSE x

\* The first n elements of rsi.fillna(50).
RECURSIVE RsiUpTo(_, _, _)
RsiUpTo(series, period, n) ==
    IF n = 0 THEN << >>
    ELSE Append(RsiUpTo(series, period, n - 1),
                FillNa(RsiAt(series, period, n), Num(50, 1)))

calculate_rsi(series, period) == RsiUpTo(series, period, Len(series))

(***************************************************************************)
(* State.                                                                  *)
(*                                                                         *)
(* BINANCE_URLS and ALLOWED_INTERVALS are the two module-level lists; they *)
(* are ordinary mutable Python lists shared by every request.              *)
(*                                                                         *)
(* The next group is the state of the in-flight GET /analyze requests, one *)
(* copy per request: the query parameters (request), the locals of analyze *)
(* (symbol, df) and of get_klines (interval, url_idx for the position of   *)
(* the for loop, last_error), the HTTP requests sent upstream so far with  *)
(* their replies (attempts) and what the client receives (outcome).        *)
(*                                                                         *)
(* The last group holds the argument and the result of a single call of    *)
(* calculate_rsi or of the analysis, for the properties of those functions.*)
(***************************************************************************)
VARIABLES BINANCE_URLS, ALLOWED_INTERVALS,
          pc, request, symbol, interval, url_idx, last_error, df,
          attempts, outcome,
          stage, in_closes, in_interval, out_rsi, out_response

cfgVars == << BINANCE_URLS, ALLOWED_INTERVALS >>

reqVars == << pc, request, symbol, interval, url_idx, last_error, df,
              attempts, outcome >>

fnVars == << stage, in_closes, in_interval, out_rsi, out_response >>

vars == << BINANCE_URLS, ALLOWED_INTERVALS,
           pc, request, symbol, interval, url_idx, last_error, df,
           attempts, outcome,
           stage, in_closes, in_interval, out_rsi, out_response >>

\* The requests in flight at the same time.
Reqs == { "r1", "r2" }

NoRequest == [symbol |-> << >>, interval |-> ""]

NoResponse == [kind |-> "none"]

None == << "None" >>

CfgInit ==
    /\ BINANCE_URLS = << "https://api.binance.com/api/v3/klines",
                         "https://api.binance.us/api/v3/klines" >>
    /\ ALLOWED_INTERVALS = << "5m", "15m", "1h", "1d" >>

ReqInit ==
    /\ pc = [r \in Reqs |-> "idle"]
    /\ request = [r \in Reqs |-> NoRequest]
    /\ symbol = [r \in Reqs |-> << >>]
    /\ interval = [r \in Reqs |-> ""]
    /\ url_idx = [r \in Reqs |-> 0]
    /\ last_error = [r \in Reqs |-> None]
    /\ df = [r \in Reqs |-> << >>]
    /\ attempts = [r \in Reqs |-> << >>]
    /\ outcome = [r \in Reqs |-> NoResponse]

FnInit ==
    /\ stage = "unused"
    /\ in_closes = << >>
    /\ in_interval = ""
    /\ out_rsi = << >>
    /\ out_response = NoResponse

(***************************************************************************)
(* Closing-price histories for calculate_rsi: every sequence of at most    *)
(* MaxLen closes that starts at RsiBase and moves in at most MaxRuns runs, *)
(* each run repeating one step of RsiSteps (down, flat or up).             *)
(***************************************************************************)
MaxLen == 16

MaxRuns == 2

RsiBase == 100 * 1000

RsiSteps == { -10, 0, 10 }

Rep(x, m) == [i \in 1..m |-> x]

RECURSIVE RunDeltas(_, _, _)
RunDeltas(steps, n, k) ==
    IF n = 0 THEN { << >> }
    ELSE IF k = 0 THEN { }
    ELSE UNION { { Rep(st, m) \o t : t \in RunDeltas(steps, n - m, k - 1) } :
                 st \in steps, m \in 1..n }

RECURSIVE Cumul(_, _)
Cumul(base, ds) ==
    IF ds = << >> THEN << base >>
    ELSE << base >> \o Cumul(base + ds[1], Tail(ds))

RsiInputs ==
    UNION { { Cumul(RsiBase, ds) : ds \in RunDeltas(RsiSteps, n, MaxRuns) } :
            n \in 0..(MaxLen - 1) }

(***************************************************************************)
(* SpecRSI: one call of calculate_rsi(series) with the default period.     *)
(***************************************************************************)
InitRSI ==
    /\ CfgInit
    /\ ReqInit
    /\ stage = "input"
    /\ in_closes \in RsiInputs
    /\ in_interval = ""
    /\ out_rsi = << >>
    /\ out_response = NoResponse

CallRsi ==
    /\ stage = "input"
    /\ out_rsi' = calculate_rsi(in_closes, RsiPeriod)
    /\ stage' = "done"
    /\ UNCHANGED << in_closes, in_interval, out_response >>
    /\ UNCHANGED << cfgVars, reqVars >>

NextRSI == CallRsi

SpecRSI == InitRSI /\ [][NextRSI]_vars

(***************************************************************************)
(* Properties of calculate_rsi (checked under SpecRSI).                    *)
(***************************************************************************)
\* Index i (1-based) is in the warm-up region: fewer than RsiPeriod price
\* differences end at it, so the rolling window is not yet full.
WarmUp(i) == i <= RsiPeriod

IsZero(x) == x.k = "num" /\ x.n = 0

IsPositive(x) == (x.k = "num" /\ x.n > 0) \/ (x.k = "inf" /\ x.n > 0)

IsExactly(x, v) == x.k = "num" /\ x.n = v * x.d

\* C4 (as stated): calculate_rsi returns exactly 50 at every index where the
\* rolling average of losses is 0, windows containing upward moves included,
\* and at every index of the warm-up region.
C4_FiftyWheneverNoLoss ==
    stage = "done" =>
        \A i \in 1..Len(in_closes) :
            (WarmUp(i) \/ IsZero(AvgLossAt(in_closes, RsiPeriod, i)))
                => IsExactly(out_rsi[i], 50)

\* C4 (amended): calculate_rsi returns exactly 50 at every index of the
\* warm-up region and at every index where the rolling averages of losses and
\* of gains are both 0; where the rolling average of losses is 0 and that of
\* gains is positive it returns exactly 100.
C4_FiftyWhenFlatHundredWhenOnlyGains ==
    stage = "done" =>
        \A i \in 1..Len(in_closes) :
            /\ WarmUp(i) => IsExactly(out_rsi[i], 50)
            /\ (~WarmUp(i) /\ IsZero(AvgLossAt(in_closes, RsiPeriod, i))
                           /\ IsZero(AvgGainAt(in_closes, RsiPeriod, i)))
                   => IsExactly(out_rsi[i], 50)
            /\ (~WarmUp(i) /\ IsZero(AvgLossAt(in_closes, RsiPeriod, i))
                           /\ IsPositive(AvgGainAt(in_closes, RsiPeriod, i)))
                   => IsExactly(out_rsi[i], 100)

\* C4 witness: a computed series with a full window that saw no movement
\* (value 50) and a later full window with gains and no loss (value 100).
C4_Witness ==
    /\ stage = "done"
    /\ \E i, j \in 1..Len(in_closes) :
          /\ ~WarmUp(i) /\ ~WarmUp(j)
          /\ IsZero(AvgLossAt(in_closes, RsiPeriod, i))
          /\ IsZero(AvgGainAt(in_closes, RsiPeriod, i))
          /\ IsExactly(out_rsi[i], 50)
          /\ IsZero(AvgLossAt(in_closes, RsiPeriod, j))
          /\ IsPositive(AvgGainAt(in_closes, RsiPeriod, j))
          /\ IsExactly(out_rsi[j], 100)

\* C8: for every non-empty closing-price sequence, the series returned by
\* calculate_rsi has one element per close and every element is a defined
\* number (not NaN, not infinite) within [0, 100].
C8_RsiWithinBounds ==
    (stage = "done" /\ Len(in_closes) > 0) =>
        /\ Len(out_rsi) = Len(in_closes)
        /\ \A i \in 1..Len(out_rsi) :
              /\ out_rsi[i].k = "num"
              /\ out_rsi[i].d > 0
              /\ 0 <= out_rsi[i].n
              /\ out_rsi[i].n <= 100 * out_rsi[i].d

\* C8 witness: a computed series holding warm-up values, a full window with
\* only gains (100) and a full window with gains and losses (strictly between).
C8_Witness ==
    /\ stage = "done"
    /\ \E i, j \in 1..Len(out_rsi) :
          /\ ~WarmUp(i) /\ ~WarmUp(j)
          /\ IsExactly(out_rsi[i], 100)
          /\ out_rsi[j].n > 0 /\ out_rsi[j].n < 100 * out_rsi[j].d

\* A computed series with a full window holding only losses (0).
C8_OnlyLossesReached ==
    /\ stage = "done"
    /\ \E i \in 1..Len(out_rsi) : ~WarmUp(i) /\ IsExactly(out_rsi[i], 0)

(***************************************************************************)
(* The analysis done by analyze once get_klines has returned a frame.      *)
(*                                                                         *)
(* Units: a close is an integer number of mills (1/1000); an EMA value is  *)
(* an integer number of 1/100000; every value rounded with round(x, 2) is  *)
(* an integer number of hundredths.                                        *)
(***************************************************************************)
EmaPerMill == 10 * 10

\* Series.ewm(span=span, adjust=False).mean(): y[1] = x[1] and
\* y[i] = (1 - a) * y[i-1] + a * x[i] with a = 2 / (span + 1).
RECURSIVE EwmMean(_, _)
EwmMean(closes, span) ==
    IF Len(closes) = 0 THEN << >>
    ELSE IF Len(closes) = 1 THEN << closes[1] * EmaPerMill >>
    ELSE LET prev == EwmMean(SubSeq(closes, 1, Len(closes) - 1), span)
         IN  Append(prev,
                    RoundDiv((span - 1) * Last(prev)
                                 + 2 * closes[Len(closes)] * EmaPerMill,
                             span + 1))

\* round(x, 2) of a close, of an EMA value and of an RSI value.
Round2Close(c) == RoundDiv(c, 10)

Round2Ema(e) == RoundDiv(e, 10 * EmaPerMill)

Round2Float(x) == RoundDiv(100 * x.n, x.d)

\* Series.iloc[-1]
LatestOf(series) == series[Len(series)]

\* Series.tail(n).tolist()
TailList(series, n) ==
    IF Len(series) <= n THEN series
    ELSE SubSeq(series, Len(series) - n + 1, Len(series))

\* The three-way rule of analyze, on the rounded latest values (hundredths).
TrendInclusive(ema20, ema50, rsi) ==
    IF ema20 > ema50 /\ rsi >= 55 * 100 THEN "Bullish"
    ELSE IF ema20 < ema50 /\ rsi <= 45 * 100 THEN "Bearish"
    ELSE "Sideways"

Trend(ema20, ema50, rsi) ==
    IF ema20 > ema50 /\ rsi > 55 * 100 THEN "Bullish"
    ELSE IF ema20 < ema50 /\ rsi < 45 * 100 THEN "Bearish"
    ELSE "Sideways"

\* round(price * (0.97 if interval == "1d" else 0.98), 2)
StopLossSwapped(price, itv) ==
    RoundDiv(price * (IF itv = "1d" THEN 98 ELSE 97), 100)

StopLoss(price, itv) ==
    RoundDiv(price * (IF itv = "1d" THEN 97 ELSE 98), 100)

\* round(price * (1.06 if interval == "1d" else 1.03), 2)
Target(price, itv) ==
    RoundDiv(price * (IF itv = "1d" THEN 106 ELSE 103), 100)

generate_explanation(trend, rsi, ema20, ema50, itv) ==
    LET tf == IF itv = "1d" THEN << "Daily", " timeframe" >>
              ELSE << itv, " timeframe" >>
    IN  IF trend = "Bullish"
        THEN [tf |-> tf, text |-> "Buyers strong.",
              values |-> << ema20, ema50, rsi >>]
        ELSE IF trend = "Bearish"
        THEN [tf |-> tf, text |-> "Sellers dominate.",
              values |-> << ema20, ema50, rsi >>]
        ELSE [tf |-> tf, text |-> "neutral.", values |-> << rsi >>]

\* What the client gets when df["close"].iloc[-1] (line 105) is evaluated on
\* an empty frame: pandas raises IndexError, analyze does not catch it, and
\* the exception leaves the handler as it is.
EmptyFrameErrorAsAllFailed ==
    [kind |-> "http_error", status |-> 500,
     detail |-> << "Binance API error (all endpoints failed)" >>]

EmptyFrameError == [kind |-> "unhandled", error |-> "IndexError"]

\* Lines 105-136 of analyze: symbol is already upper-cased, itv is analyze's
\* own interval parameter and closes is the close column of the frame.
AnalyzeFrame(sym, itv, closes) ==
    IF Len(closes) = 0
    THEN EmptyFrameError
    ELSE
    LET price        == Round2Close(LatestOf(closes))
        rsi_series   == calculate_rsi(closes, RsiPeriod)
        rsi          == Round2Float(LatestOf(rsi_series))
        ema20_series == EwmMean(closes, Ema20Span)
        ema50_series == EwmMean(closes, Ema50Span)
        ema20        == Round2Ema(LatestOf(ema20_series))
        ema50        == Round2Ema(LatestOf(ema50_series))
        trend        == Trend(ema20, ema50, rsi)
    IN  [kind        |-> "response",
         status      |-> 200,
         symbol      |-> sym,
         interval    |-> itv,
         trend       |-> trend,
         entry       |-> price,
         stoploss    |-> StopLoss(price, itv),
         target      |-> Target(price, itv),
         confidence  |-> << "RSI", rsi >>,
         explanation |-> generate_explanation(trend, rsi, ema20, ema50, itv),
         prices      |-> TailList(closes, TailLen),
         ema20_list  |-> TailList(ema20_series, TailLen),
         ema50_list  |-> TailList(ema50_series, TailLen),
         rsi_list    |-> TailList(rsi_series, TailLen)]

(***************************************************************************)
(* SpecAnalyze: one analysis of a fetched frame.  The closing prices are a *)
(* quiet stretch at AnalysisBase followed by at most MaxMoves moves, each  *)
(* one of AnalysisSteps (in mills); the interval is any requested value.   *)
(***************************************************************************)
MaxQuiet == 14

MaxMoves == 2

AnalysisBase == 100 * 1000

AnalysisSteps == { -110, -90, 0, 4, 90, 110 }

RequestedIntervals == { "5m", "15m", "1h", "1d", "2h" }

AnalysisSymbol == << "B", "T", "C" >>

AnalysisInputs ==
    { Cumul(AnalysisBase, Rep(0, q) \o mv) :
        q \in 0..MaxQuiet,
        mv \in UNION { [1..m -> AnalysisSteps] : m \in 0..MaxMoves } }

InitAnalyze ==
    /\ CfgInit
    /\ ReqInit
    /\ stage = "input"
    /\ in_closes \in AnalysisInputs
    /\ in_interval \in RequestedIntervals
    /\ out_rsi = << >>
    /\ out_response = NoResponse

CallAnalyze ==
    /\ stage = "input"
    /\ out_response' = AnalyzeFrame(AnalysisSymbol, in_interval, in_closes)
    /\ stage' = "done"
    /\ UNCHANGED << in_closes, in_interval, out_rsi >>
    /\ UNCHANGED << cfgVars, reqVars >>

NextAnalyze == CallAnalyze

SpecAnalyze == InitAnalyze /\ [][NextAnalyze]_vars

(***************************************************************************)
(* Properties of the analysis (checked under SpecAnalyze).                 *)
(***************************************************************************)
Analyzed == stage = "done" /\ out_response.kind = "response"

\* The latest values of the three series over the whole history: as the
\* series hold them, and rounded to hundredths.
LastEma20 ==
    LET series == EwmMean(in_closes, Ema20Span) IN series[Len(in_closes)]

LastEma50 ==
    LET series == EwmMean(in_closes, Ema50Span) IN series[Len(in_closes)]

LastRsi ==
    LET series == calculate_rsi(in_closes, RsiPeriod)
    IN  series[Len(in_closes)]

RuleOn(up, down, high, low, label) ==
    /\ label \in { "Bullish", "Bearish", "Sideways" }
    /\ (label = "Bullish") <=> (up /\ high)
    /\ (label = "Bearish") <=> (down /\ low)
    /\ (label = "Sideways") <=> (~(up /\ high) /\ ~(down /\ low))

\* C5 (as stated): the trend is the three-way rule applied to the latest
\* values of the EMA20, EMA50 and RSI series: Bullish iff ema20 > ema50 and
\* rsi > 55, Bearish iff ema20 < ema50 and rsi < 45, Sideways otherwise.
C5_TrendOfLatestValues ==
    Analyzed =>
        LET ema20 == LastEma20
            ema50 == LastEma50
            rsi   == LastRsi
            up    == ema20 > ema50
            down  == ema20 < ema50
            high  == ~FLeq(rsi, Num(55, 1))
            low   == ~FLeq(Num(45, 1), rsi)
        IN  RuleOn(up, down, high, low, out_response.trend)

\* C5 (amended): the trend is the three-way rule applied to the latest values
\* of the EMA20, EMA50 and RSI series each rounded to 2 decimals: Bullish iff
\* ema20 > ema50 and rsi > 55, Bearish iff ema20 < ema50 and rsi < 45,
\* Sideways in every other case; exactly one of the three labels is returned.
C5_TrendOfRoundedLatestValues ==
    Analyzed =>
        LET ema20 == Round2Ema(LastEma20)
            ema50 == Round2Ema(LastEma50)
            rsi   == Round2Float(LastRsi)
            up    == ema20 > ema50
            down  == ema20 < ema50
            high  == rsi > 5500
            low   == rsi < 4500
        IN  RuleOn(up, down, high, low, out_response.trend)

\* C5 witness: an analysis whose rounded ema20 is above ema50 while the
\* rounded RSI is exactly 55.00, classified Sideways.
C5_Witness ==
    /\ Analyzed
    /\ Round2Ema(LastEma20) > Round2Ema(LastEma50)
    /\ Round2Float(LastRsi) = 5500
    /\ out_response.trend = "Sideways"

\* Trends reached by the analysis, and the other boundary of the rule.
C5_BullishReached == Analyzed /\ out_response.trend = "Bullish"

C5_BearishReached == Analyzed /\ out_response.trend = "Bearish"

C5_LowBoundaryReached ==
    /\ Analyzed
    /\ Round2Ema(LastEma20) < Round2Ema(LastEma50)
    /\ Round2Float(LastRsi) = 4500
    /\ out_response.trend = "Sideways"

\* v (hundredths) is num / den rounded to 2 decimals, where num / den is in
\* units of the quote currency times `scale`.
IsRounded2(v, num, den) ==
    /\ 2 * (v * den - 100 * num) <= den
    /\ 2 * (100 * num - v * den) <= den

StopFactor(itv) == IF itv = "1d" THEN 97 ELSE 98

TargetFactor(itv) == IF itv = "1d" THEN 106 ELSE 103

\* C6 (as stated): with P the latest close price, stoploss is P * 0.97 and
\* target P * 1.06 for interval 1d, and P * 0.98 and P * 1.03 for every other
\* requested interval, each rounded to 2 decimals.
C6_LevelsOfLatestClose ==
    Analyzed =>
        LET P == Last(in_closes)
        IN  /\ IsRounded2(out_response.stoploss,
                          P * StopFactor(in_interval), 1000 * 100)
            /\ IsRounded2(out_response.target,
                          P * TargetFactor(in_interval), 1000 * 100)

\* C6 (amended): with P the latest close price rounded to 2 decimals (the
\* entry of the response), stoploss is P * 0.97 and target P * 1.06 for
\* interval 1d, and P * 0.98 and P * 1.03 for every other requested interval,
\* those outside the allow-list included, each rounded to 2 decimals; P =
\* 100.00 gives 97.00 / 106.00 for 1d and 98.00 / 103.00 otherwise.
C6_LevelsOfRoundedClose ==
    Analyzed =>
        LET P == out_response.entry
        IN  /\ IsRounded2(P, Last(in_closes), 1000)
            /\ IsRounded2(out_response.stoploss,
                          P * StopFactor(in_interval), 100 * 100)
            /\ IsRounded2(out_response.target,
                          P * TargetFactor(in_interval), 100 * 100)
            /\ (P = 10000 /\ in_interval = "1d")
                   => (out_response.stoploss = 9700
                       /\ out_response.target = 10600)
            /\ (P = 10000 /\ in_interval # "1d")
                   => (out_response.stoploss = 9800
                       /\ out_response.target = 10300)

\* C6 witness: an analysis for a requested interval outside the allow-list
\* whose latest close is 100.00.
C6_Witness ==
    /\ Analyzed
    /\ in_interval = "2h"
    /\ Last(in_closes) = 100000
    /\ out_response.entry = 10000
    /\ out_response.stoploss = 9800
    /\ out_response.target = 10300

\* The daily case of the example.
C6_DailyReached ==
    /\ Analyzed
    /\ in_interval = "1d"
    /\ out_response.entry = 10000
    /\ out_response.stoploss = 9700
    /\ out_response.target = 10600

(***************************************************************************)
(* Spec: the GET /analyze handler serving concurrent requests.             *)
(*                                                                         *)
(* FastAPI runs the synchronous handler of each request on its own worker  *)
(* thread.  A request takes one step when it is received and one step per  *)
(* upstream attempt (requests.get blocks the thread until the reply); the  *)
(* code between two such points touches only the request's own locals.     *)
(***************************************************************************)
\* The query parameters clients send.
RequestedSymbols == { << "b", "t", "c" >>, << "E", "T", "H" >> }

\* What an endpoint can answer to one requests.get call.
StatusCodes == { 451, 500 }

TransportErrors == { "Read timed out" }

MalformedListError == "12 columns passed, passed data had 3 columns"

\* Well-formed candle lists (their close column, in mills), the empty list
\* included.
SampleFrames == { << >>, << 99890, 100000 >> }

ReplyStatus(code) ==
    [kind |-> "status", code |-> code, text |-> "", closes |-> << >>]

ReplyRaised(text) ==
    [kind |-> "exception", code |-> 0, text |-> text, closes |-> << >>]

ReplyNotList ==
    [kind |-> "not_list", code |-> 200, text |-> "", closes |-> << >>]

ReplyMalformedList ==
    [kind |-> "malformed_list", code |-> 200, text |-> "", closes |-> << >>]

ReplyList(closes) ==
    [kind |-> "list", code |-> 200, text |-> "", closes |-> closes]

\* str.upper() on the characters the symbols are made of.
UpperChar(c) ==
    CASE c = "b" -> "B"
      [] c = "c" -> "C"
      [] c = "t" -> "T"
      [] OTHER   -> c

Upper(sym) == [i \in 1..Len(sym) |-> UpperChar(sym[i])]

\* get_klines, lines 27-28.
NormalizeIntervalNever(itv) == itv

NormalizeInterval(itv) ==
    IF itv \notin Range(ALLOWED_INTERVALS) THEN DefaultInterval ELSE itv

\* The requests.get call of lines 34-43 and the reply it got.
FetchLimit == 200

Sent(r, reply) ==
    [url    |-> BINANCE_URLS[url_idx[r]],
     params |-> [symbol |-> symbol[r], interval |-> interval[r],
                 limit |-> FetchLimit],
     reply  |-> reply]

\* last_error = ... : a local of the get_klines call of request r.
SetLastErrorShared(le, r, err) == [q \in Reqs |-> err]

SetLastError(le, r, err) == [le EXCEPT ![r] = err]

\* The for loop of line 32 has no URL left after position i.
ExhaustedAfterFirst(i) == i >= 1

Exhausted(i) == i >= Len(BINANCE_URLS)

\* Lines 67-70: the HTTPException raised once the loop is over.
AllFailedErrorWithCause(le) ==
    [kind |-> "http_error", status |-> 500,
     detail |-> << "Binance API error (all endpoints failed)", le >>]

AllFailedError(le) ==
    [kind |-> "http_error", status |-> 500,
     detail |-> << "Binance API error (all endpoints failed)" >>]

\* A request arrives: analyze upper-cases the symbol and calls get_klines,
\* which normalizes its own interval parameter and starts the loop.
Receive(r, sym, itv) ==
    /\ pc[r] = "idle"
    /\ request' = [request EXCEPT ![r] = [symbol |-> sym, interval |-> itv]]
    /\ symbol' = [symbol EXCEPT ![r] = Upper(sym)]
    /\ interval' = [interval EXCEPT ![r] = NormalizeInterval(itv)]
    /\ last_error' = SetLastError(last_error, r, None)
    /\ url_idx' = [url_idx EXCEPT ![r] = 1]
    /\ pc' = [pc EXCEPT ![r] = "fetch"]
    /\ UNCHANGED << df, attempts, outcome >>
    /\ UNCHANGED << cfgVars, fnVars >>

\* One iteration of the loop that ends in `continue`: the error is recorded
\* and the next URL is tried, or the loop is over and line 67 raises.
Failed(r, reply, err) ==
    /\ pc[r] = "fetch"
    /\ attempts' = [attempts EXCEPT ![r] = Append(@, Sent(r, reply))]
    /\ last_error' = SetLastError(last_error, r, err)
    /\ IF Exhausted(url_idx[r])
       THEN /\ outcome' = [outcome EXCEPT ![r] = AllFailedError(err)]
            /\ pc' = [pc EXCEPT ![r] = "done"]
            /\ UNCHANGED url_idx
       ELSE /\ url_idx' = [url_idx EXCEPT ![r] = @ + 1]
            /\ UNCHANGED << outcome, pc >>
    /\ UNCHANGED << request, symbol, interval, df >>
    /\ UNCHANGED << cfgVars, fnVars >>

\* Lines 45-47: the status is not 200.
AttemptNon200(r, code) ==
    Failed(r, ReplyStatus(code), << BINANCE_URLS[url_idx[r]], code >>)

\* Lines 51-53: the body parses as JSON that is not a list.
AttemptInvalidData(r) ==
    Failed(r, ReplyNotList, << BINANCE_URLS[url_idx[r]], "invalid data" >>)

\* Lines 63-65: requests.get raised (timeout, connection error).
AttemptRaised(r, text) ==
    Failed(r, ReplyRaised(text), << text >>)

\* Lines 55-65: the body is a list whose rows are not candle tuples, so
\* building the frame or converting the close column raises.
AttemptMalformedList(r) ==
    Failed(r, ReplyMalformedList, << MalformedListError >>)

\* Lines 55-61 and 105-136: the body is a well-formed list; get_klines
\* returns the frame and analyze runs to its end on it.
AttemptSuccess(r, closes) ==
    /\ pc[r] = "fetch"
    /\ attempts' = [attempts EXCEPT ![r] = Append(@, Sent(r, ReplyList(closes)))]
    /\ df' = [df EXCEPT ![r] = closes]
    /\ outcome' = [outcome EXCEPT ![r] =
                      AnalyzeFrame(symbol[r], request[r].interval, closes)]
    /\ pc' = [pc EXCEPT ![r] = "done"]
    /\ UNCHANGED << request, symbol, interval, url_idx, last_error >>
    /\ UNCHANGED << cfgVars, fnVars >>

\* The response (or error) has been sent; the locals of the call are gone.
Complete(r) ==
    /\ pc[r] = "done"
    /\ pc' = [pc EXCEPT ![r] = "idle"]
    /\ request' = [request EXCEPT ![r] = NoRequest]
    /\ symbol' = [symbol EXCEPT ![r] = << >>]
    /\ interval' = [interval EXCEPT ![r] = ""]
    /\ url_idx' = [url_idx EXCEPT ![r] = 0]
    /\ last_error' = [last_error EXCEPT ![r] = None]
    /\ df' = [df EXCEPT ![r] = << >>]
    /\ attempts' = [attempts EXCEPT ![r] = << >>]
    /\ outcome' = [outcome EXCEPT ![r] = NoResponse]
    /\ UNCHANGED << cfgVars, fnVars >>

Init == CfgInit /\ ReqInit /\ FnInit

Next ==
    \/ \E r \in Reqs, sym \in RequestedSymbols, itv \in RequestedIntervals :
           Receive(r, sym, itv)
    \/ \E r \in Reqs, code \in StatusCodes : AttemptNon200(r, code)
    \/ \E r \in Reqs : AttemptInvalidData(r)
    \/ \E r \in Reqs, text \in TransportErrors : AttemptRaised(r, text)
    \/ \E r \in Reqs : AttemptMalformedList(r)
    \/ \E r \in Reqs, closes \in SampleFrames : AttemptSuccess(r, closes)
    \/ \E r \in Reqs : Complete(r)

Spec == Init /\ [][Next]_vars

(***************************************************************************)
(* Properties of the request handling (checked under Spec).                *)
(***************************************************************************)
\* A reply that makes the attempt fail: a status other than 200, an exception
\* raised by the request, or a body that is not a well-formed candle list.
ReplyFails(reply) ==
    \/ reply.kind = "status" /\ reply.code # 200
    \/ reply.kind = "exception"
    \/ reply.kind = "not_list"
    \/ reply.kind = "malformed_list"

AllAttemptsFailed(r) ==
    \A i \in 1..Len(attempts[r]) : ReplyFails(attempts[r][i].reply)

LastAttempt(r) == attempts[r][Len(attempts[r])]

GenericDetail == << "Binance API error (all endpoints failed)" >>

AllowList == { "5m", "15m", "1h", "1d" }

EffectiveInterval(itv) == IF itv \in AllowList THEN itv ELSE "15m"

\* C1: the endpoints are attempted in list order, each at most once; endpoint
\* k+1 is attempted iff endpoints 1..k all failed; the first success returns
\* its candles and nothing is attempted after it; at most as many attempts as
\* endpoints are made.
C1_OrderedFallback ==
    \A r \in Reqs :
        LET n == Len(attempts[r])
        IN  /\ n <= Len(BINANCE_URLS)
            /\ \A i \in 1..n : attempts[r][i].url = BINANCE_URLS[i]
            /\ \A i \in 1..(n - 1) : ReplyFails(attempts[r][i].reply)
            /\ pc[r] = "fetch" =>
                  /\ AllAttemptsFailed(r)
                  /\ n < Len(BINANCE_URLS)
                  /\ url_idx[r] = n + 1
            /\ pc[r] = "done" =>
                  /\ n >= 1
                  /\ \/ /\ ~ReplyFails(LastAttempt(r).reply)
                        /\ df[r] = LastAttempt(r).reply.closes
                     \/ /\ AllAttemptsFailed(r)
                        /\ n = Len(BINANCE_URLS)

\* C1 witness: a request whose first endpoint failed and whose second
\* endpoint returned the candles.
C1_Witness ==
    \E r \in Reqs :
        /\ pc[r] = "done"
        /\ Len(attempts[r]) = 2
        /\ ReplyFails(attempts[r][1].reply)
        /\ attempts[r][2].reply.kind = "list"
        /\ df[r] = attempts[r][2].reply.closes
        /\ df[r] # << >>

\* C2: when every endpoint attempt fails the request ends with an HTTP 500
\* whose detail is the one generic message, the same for every combination
\* of failures; and that error is raised only when all endpoints failed.
C2_GenericErrorOnlyWhenAllFailed ==
    \A r \in Reqs :
        /\ (pc[r] = "done" /\ AllAttemptsFailed(r)) =>
              outcome[r] = [kind |-> "http_error", status |-> 500,
                            detail |-> GenericDetail]
        /\ outcome[r].kind = "http_error" =>
              /\ outcome[r].status = 500
              /\ outcome[r].detail = GenericDetail
              /\ Len(attempts[r]) = Len(BINANCE_URLS)
              /\ AllAttemptsFailed(r)

\* C2 witness: a request that ended with the generic 500 after two failures
\* of different kinds, with an upstream error recorded.
C2_Witness ==
    \E r \in Reqs :
        /\ outcome[r].kind = "http_error"
        /\ attempts[r][1].reply.kind = "status"
        /\ attempts[r][2].reply.kind = "exception"
        /\ last_error[r] # None

\* C3: the interval field of every 200 response is the normalized interval:
\* a member of the allow-list, the requested interval when that is in the
\* allow-list and 15m when it is not, i.e. the interval used for the fetch.
C3_ResponseIntervalNormalized ==
    \A r \in Reqs :
        outcome[r].kind = "response" =>
            /\ outcome[r].interval \in AllowList
            /\ outcome[r].interval = EffectiveInterval(request[r].interval)
            /\ outcome[r].interval = LastAttempt(r).params.interval

\* C7: every endpoint attempt of a request is issued with interval 15m when
\* the requested interval is outside the allow-list and with the requested
\* interval when it is inside; whatever the interval, the request is not
\* rejected: it is sent upstream.
C7_FetchUsesEffectiveInterval ==
    \A r \in Reqs :
        /\ \A i \in 1..Len(attempts[r]) :
              attempts[r][i].params.interval
                  = EffectiveInterval(request[r].interval)
        /\ pc[r] = "fetch" => interval[r] = EffectiveInterval(request[r].interval)
        /\ pc[r] = "done" => Len(attempts[r]) >= 1

\* C7 witness: a request for an interval outside the allow-list whose two
\* attempts were both issued with 15m.
C7_Witness ==
    \E r \in Reqs :
        /\ request[r].interval = "2h"
        /\ Len(attempts[r]) = 2
        /\ attempts[r][1].params.interval = "15m"
        /\ attempts[r][2].params.interval = "15m"

\* The outcome of a request as a function of its own query parameters and of
\* the replies to its own attempts.
OwnOutcome(req, atts) ==
    LET last == atts[Len(atts)].reply
    IN  IF last.kind = "list"
        THEN AnalyzeFrame(Upper(req.symbol), req.interval, last.closes)
        ELSE [kind |-> "http_error", status |-> 500, detail |-> GenericDetail]

\* A step of request r leaves every local of the other requests as it was.
OthersUntouched(r) ==
    \A q \in Reqs \ { r } :
        /\ pc'[q] = pc[q]
        /\ request'[q] = request[q]
        /\ symbol'[q] = symbol[q]
        /\ interval'[q] = interval[q]
        /\ url_idx'[q] = url_idx[q]
        /\ last_error'[q] = last_error[q]
        /\ df'[q] = df[q]
        /\ attempts'[q] = attempts[q]
        /\ outcome'[q] = outcome[q]

\* C9: concurrent requests are independent: every step belongs to one
\* request and changes nothing of any other request (its recorded error
\* included) nor the endpoint list or the allow-list; every attempt carries
\* the request's own symbol; and under every interleaving the outcome a
\* request ends with is the function of its own symbol, interval and replies,
\* and stays what it is while other requests run.
C9_RequestsIndependent ==
    [][ /\ \E r \in Reqs : OthersUntouched(r)
        /\ BINANCE_URLS' = BINANCE_URLS
        /\ ALLOWED_INTERVALS' = ALLOWED_INTERVALS
        /\ \A r \in Reqs :
              /\ \A i \in 1..Len(attempts'[r]) :
                    attempts'[r][i].params.symbol = Upper(request'[r].symbol)
              /\ (pc[r] # "done" /\ pc'[r] = "done") =>
                    outcome'[r] = OwnOutcome(request'[r], attempts'[r])
              /\ (pc[r] = "done" /\ pc'[r] = "done") =>
                    /\ outcome'[r] = outcome[r]
                    /\ request'[r] = request[r]
                    /\ attempts'[r] = attempts[r] ]_vars

\* C9 witness: two requests in flight at once with different parameters,
\* one with a recorded error and about to try the second endpoint, the other
\* answered with an analysis and no recorded error.
C9_Witness ==
    \E r, q \in Reqs :
        /\ r # q
        /\ pc[r] = "fetch" /\ url_idx[r] = 2 /\ last_error[r] # None
        /\ pc[q] = "done" /\ outcome[q].kind = "response"
        /\ last_error[q] = None
        /\ request[r].symbol # request[q].symbol
        /\ request[r].interval # request[q].interval

\* C10: an endpoint answering 200 with an empty list ends the fetch (no later
\* endpoint is attempted) with an empty frame, and the request then fails
\* with the unhandled IndexError: neither the all-endpoints-failed 500 nor an
\* analysis response.
C10_EmptyListIsUnhandledError ==
    \A r \in Reqs :
        \A i \in 1..Len(attempts[r]) :
            (attempts[r][i].reply.kind = "list"
                 /\ attempts[r][i].reply.closes = << >>) =>
                /\ i = Len(attempts[r])
                /\ pc[r] = "done"
                /\ df[r] = << >>
                /\ outcome[r] = [kind |-> "unhandled", error |-> "IndexError"]
                /\ outcome[r].kind \notin { "http_error", "response" }

\* C10 witness: the first endpoint answered with an empty list; the second
\* endpoint was never attempted and the request failed with IndexError.
C10_Witness ==
    \E r \in Reqs :
        /\ pc[r] = "done"
        /\ Len(attempts[r]) = 1
        /\ attempts[r][1].url = BINANCE_URLS[1]
        /\ attempts[r][1].reply = ReplyList(<< >>)
        /\ outcome[r].kind = "unhandled"

=============================================================================
